---- MODULE Spec2Model ----
(***************************************************************************)
(* CHIP-8 virtual machine of chip-type-8: the VM class (src/src/vm.ts,     *)
(* lines 1-228), its instruction handlers (src/src/instructions.ts), the   *)
(* input handler (src/src/input.ts, lines 1-54), the display               *)
(* (src/unnamed/part_015, lines 28-142) and the nibble/bcd helpers         *)
(* (src/unnamed/part_020).                                                 *)
(*                                                                         *)
(* The machine is the record vm; a handler is an operator from a machine   *)
(* record to an outcome [vm, thrown]: the machine as the handler leaves it *)
(* and the exception it throws ("none" when it returns).                   *)
(***************************************************************************)
EXTENDS Integers, Sequences, FiniteSets, TLC

VARIABLES
  vm,       \* the VM object with its Display and Input
  thrown,   \* exception that left the last call ("none": it returned)
  call,     \* the last call made on the machine or event delivered to it
  pre,      \* the machine as it was when that call was made
  probe,    \* observations of the last tick(): timers after the timer phase, next() calls issued
  loads     \* number of load() calls so far

vars == <<vm, thrown, call, pre, probe, loads>>

----------------------------------------------------------------------------
(* Program constants *)

ROM_START == 512
CLOCKSPEED == 600
EIGHT_BIT_WRAP == 256
SIXTEEN_BIT_WRAP == 4096
MEMORY_SIZE == 4096
HORIZONTAL_WRAP == 64
VERTICAL_WRAP == 32

(* The value of an out-of-range typed-array read, held as a number that no
   computation of the machine yields. *)
undefined == -65536

----------------------------------------------------------------------------
(* Bounds of the model *)

MaxLoads == 1
MaxStack == 3
MaxCounter == 564

----------------------------------------------------------------------------
(* JavaScript number conversions and bit operations *)

(* ToInt32 of an array element: undefined becomes 0. *)
ToInt(v) == IF v = undefined THEN 0 ELSE v

(* A store into a Uint8Array element: modulo 2^8, undefined (NaN) becomes 0. *)
ToUint8(v) == IF v = undefined THEN 0 ELSE v % 256

RECURSIVE BitAnd(_, _)
BitAnd(a, b) ==
  IF a = 0 \/ b = 0 THEN 0
  ELSE (a % 2) * (b % 2) + 2 * BitAnd(a \div 2, b \div 2)

RECURSIVE BitOr(_, _)
BitOr(a, b) ==
  IF a = 0 THEN b
  ELSE IF b = 0 THEN a
  ELSE (IF a % 2 = 1 \/ b % 2 = 1 THEN 1 ELSE 0) + 2 * BitOr(a \div 2, b \div 2)

RECURSIVE BitXor(_, _)
BitXor(a, b) ==
  IF a = 0 THEN b
  ELSE IF b = 0 THEN a
  ELSE ((a + b) % 2) + 2 * BitXor(a \div 2, b \div 2)

----------------------------------------------------------------------------
(* utils: Nibbler, bcd *)

nibbleFirst(bytes) == BitAnd(bytes, \hF000) \div 4096
nibbleSecond(bytes) == BitAnd(bytes, \h0F00) \div 256
nibbleThird(bytes) == BitAnd(bytes, \h00F0) \div 16
nibbleFourth(bytes) == BitAnd(bytes, \h000F)
withoutFirst(bytes) == BitAnd(bytes, \h0FFF)
withoutSecond(bytes) == BitAnd(bytes, \hF0FF)

(* Mutant: the tens digit is not reduced modulo 10. *)
bcd_tensNotReduced(value) ==
  LET hundreds == value \div 100
      tens == value \div 10
      ones == (value % 100) % 10
  IN  <<hundreds, tens, ones>>

bcd(value) ==
  LET hundreds == value \div 100
      tens == (value \div 10) % 10
      ones == (value % 100) % 10
  IN  <<hundreds, tens, ones>>

----------------------------------------------------------------------------
(* fonts *)

getFontSprites ==
  << \hF0, \h90, \h90, \h90, \hF0,
     \h20, \h60, \h20, \h20, \h70,
     \hF0, \h10, \hF0, \h80, \hF0,
     \hF0, \h10, \hF0, \h10, \hF0,
     \h90, \h90, \hF0, \h10, \h10,
     \hF0, \h80, \hF0, \h10, \hF0,
     \hF0, \h80, \hF0, \h90, \hF0,
     \hF0, \h10, \h20, \h40, \h40,
     \hF0, \h90, \hF0, \h90, \hF0,
     \hF0, \h90, \hF0, \h10, \hF0,
     \hF0, \h90, \hF0, \h90, \h90,
     \hE0, \h90, \hE0, \h90, \hE0,
     \hF0, \h80, \h80, \h80, \hF0,
     \hE0, \h90, \h90, \h90, \hE0,
     \hF0, \h80, \hF0, \h80, \hF0,
     \hF0, \h80, \hF0, \h80, \h80 >>

----------------------------------------------------------------------------
(* input: the key map and the key event listeners *)

(* Physical keys in the order Object.keys(keyMap) lists them: the
   integer-like names ascending, then the others in insertion order. *)
keyNames == <<"1", "2", "3", "4", "q", "w", "e", "r",
              "a", "s", "d", "f", "z", "x", "c", "v">>

keyMap ==
  [k \in {keyNames[i] : i \in 1..16} |->
     CASE k = "1" -> 1  [] k = "2" -> 2  [] k = "3" -> 3  [] k = "4" -> 12
       [] k = "q" -> 4  [] k = "w" -> 5  [] k = "e" -> 6  [] k = "r" -> 13
       [] k = "a" -> 7  [] k = "s" -> 8  [] k = "d" -> 9  [] k = "f" -> 14
       [] k = "z" -> 10 [] k = "x" -> 0  [] k = "c" -> 11 [] k = "v" -> 15]

(* The keydown listener: a mapped key joins the active keys. *)
keydown(activeKeys, key) ==
  IF key \in DOMAIN keyMap THEN activeKeys \cup {keyMap[key]} ELSE activeKeys

(* Mutant: a keyup of a mapped key releases every key. *)
keyup_releasesAll(activeKeys, key) ==
  LET code == IF key \in DOMAIN keyMap THEN keyMap[key] ELSE undefined
  IN  IF code \in activeKeys THEN {} ELSE activeKeys

(* The keyup listener: keyMap[e.key] of an unmapped key is undefined, which
   the set never holds. *)
keyup(activeKeys, key) ==
  LET code == IF key \in DOMAIN keyMap THEN keyMap[key] ELSE undefined
  IN  IF code \in activeKeys THEN activeKeys \ {code} ELSE activeKeys

isPressed(activeKeys, key) == key \in activeKeys

----------------------------------------------------------------------------
(* display: the lit pixels of the 64 x 32 grid *)

clear(pixels) == {}

isPixelSet(pixels, x, y) == <<x, y>> \in pixels

(* Mutant: a set bit always lights its pixel instead of flipping it. *)
drawByte_paints(d, x1, y1, y2, byte) ==
  LET y == (y1 + y2) % VERTICAL_WRAP
      cells == {<<(x1 + (7 - x2)) % HORIZONTAL_WRAP, y>> :
                  x2 \in {b \in 0..7 : (byte \div (2 ^ b)) % 2 = 1}}
      erased == {c \in cells : isPixelSet(d.pixels, c[1], c[2])}
  IN  [pixels |-> d.pixels \cup cells,
       pixelsFlipped |-> d.pixelsFlipped \/ erased # {}]

(* Mutant: a sprite is clipped at the right and bottom edges. *)
drawByte_clipped(d, x1, y1, y2, byte) ==
  LET y == (y1 % VERTICAL_WRAP) + y2
      cells == {c \in {<<(x1 % HORIZONTAL_WRAP) + (7 - x2), y>> :
                         x2 \in {b \in 0..7 : (byte \div (2 ^ b)) % 2 = 1}} :
                  c[1] < HORIZONTAL_WRAP /\ c[2] < VERTICAL_WRAP}
      erased == {c \in cells : isPixelSet(d.pixels, c[1], c[2])}
  IN  [pixels |-> (d.pixels \ erased) \cup (cells \ erased),
       pixelsFlipped |-> d.pixelsFlipped \/ erased # {}]

(* The inner loop of drawSprite over the bits x2 = 0..7 of one byte, bit x2
   landing at column (x1 + (7 - x2)) % 64 of row (y1 + y2) % 32: a set bit
   flips its pixel, and erasing a lit pixel raises pixelsFlipped. The eight
   columns of a row are distinct, so the loop is taken in one step.
   d is [pixels, pixelsFlipped]. *)
drawByte(d, x1, y1, y2, byte) ==
  LET y == (y1 + y2) % VERTICAL_WRAP
      cells == {<<(x1 + (7 - x2)) % HORIZONTAL_WRAP, y>> :
                  x2 \in {b \in 0..7 : (byte \div (2 ^ b)) % 2 = 1}}
      erased == {c \in cells : isPixelSet(d.pixels, c[1], c[2])}
  IN  [pixels |-> (d.pixels \ erased) \cup (cells \ erased),
       pixelsFlipped |-> d.pixelsFlipped \/ erased # {}]

(* The outer loop of drawSprite over bytes.entries(); y2 counts from 0. *)
RECURSIVE drawRows(_, _, _, _, _)
drawRows(d, x1, y1, bytes, y2) ==
  IF y2 >= Len(bytes) THEN d
  ELSE drawRows(drawByte(d, x1, y1, y2, bytes[y2 + 1]), x1, y1, bytes, y2 + 1)

drawSprite(pixels, x1, y1, bytes) ==
  drawRows([pixels |-> pixels, pixelsFlipped |-> FALSE], x1, y1, bytes, 0)

----------------------------------------------------------------------------
(* The VM: construction, memory access, load *)

(* The 4096-byte Uint8Array is held as the function from the addresses of its
   nonzero bytes to those bytes: every other address in range reads 0. *)
inMemory(a) == a \in 0..(MEMORY_SIZE - 1)

readMemory(mem, a) ==
  IF a \in DOMAIN mem THEN mem[a]
  ELSE IF inMemory(a) THEN 0
  ELSE undefined

(* A store outside a typed array is dropped. *)
writeMemory(mem, a, v) ==
  IF ~inMemory(a) THEN mem
  ELSE IF ToUint8(v) = 0 THEN [x \in DOMAIN mem \ {a} |-> mem[x]]
  ELSE [x \in DOMAIN mem \cup {a} |-> IF x = a THEN ToUint8(v) ELSE mem[x]]

(* Uint8Array.slice(from, to): both ends are clamped to the array. *)
slice(mem, from, to) ==
  LET hi == IF to > MEMORY_SIZE THEN MEMORY_SIZE ELSE to
  IN  [i \in 1..(IF hi > from THEN hi - from ELSE 0) |-> readMemory(mem, from + i - 1)]

(* Mutant: the loop of loadFonts() starts at address 1. *)
loadFonts_skipsFirst(mem) ==
  LET fontData == getFontSprites
      written == 1..(Len(fontData) - 1)
  IN  [a \in {x \in DOMAIN mem \cup written : x \in written => fontData[x + 1] # 0} |->
         IF a \in written THEN fontData[a + 1] ELSE mem[a]]

(* The loop of loadFonts(): memory[address] = fontData[address] *)
loadFonts(mem) ==
  LET fontData == getFontSprites
      written == 0..(Len(fontData) - 1)
  IN  [a \in {x \in DOMAIN mem \cup written : x \in written => fontData[x + 1] # 0} |->
         IF a \in written THEN fontData[a + 1] ELSE mem[a]]

construct ==
  [ registers |-> [r \in 0..15 |-> 0],
    flags |-> [f \in 0..7 |-> 0],
    memory |-> loadFonts(<<>>),
    counter |-> ROM_START,
    address |-> 0,
    stack |-> <<>>,
    delayTimer |-> 0,
    soundTimer |-> 0,
    display |-> {},
    input |-> {},
    waitingForInput |-> FALSE ]

(* Mutant: load() also clears the HP48 flags. *)
load_clearsFlags(m, bytes) ==
  LET written == {a \in ROM_START..(ROM_START + Len(bytes) - 1) : inMemory(a)}
      byteAt(a) == ToUint8(bytes[a - ROM_START + 1])
  IN  [m EXCEPT !.flags = [f \in 0..7 |-> 0],
                !.memory =
         [a \in {x \in DOMAIN m.memory \cup written : x \in written => byteAt(x) # 0} |->
            IF a \in written THEN byteAt(a) ELSE m.memory[a]]]

(* Mutant: load() clears the program area before it copies the bytes. *)
load_clearsProgram(m, bytes) ==
  LET written == {a \in ROM_START..(ROM_START + Len(bytes) - 1) : inMemory(a)}
      byteAt(a) == ToUint8(bytes[a - ROM_START + 1])
      kept == {x \in DOMAIN m.memory : x < ROM_START}
  IN  [m EXCEPT !.memory =
         [a \in {x \in kept \cup written : x \in written => byteAt(x) # 0} |->
            IF a \in written THEN byteAt(a) ELSE m.memory[a]]]

(* The loop of load(): memory[ROM_START + index] = byte for every index of
   bytes; a store past the end of memory is dropped. *)
load(m, bytes) ==
  LET written == {a \in ROM_START..(ROM_START + Len(bytes) - 1) : inMemory(a)}
      byteAt(a) == ToUint8(bytes[a - ROM_START + 1])
  IN  [m EXCEPT !.memory =
         [a \in {x \in DOMAIN m.memory \cup written : x \in written => byteAt(x) # 0} |->
            IF a \in written THEN byteAt(a) ELSE m.memory[a]]]

(* Mutant: the counter advances by one memory slot. *)
incrementCounter_oneSlot(m) == [m EXCEPT !.counter = @ + 1]

incrementCounter(m) == [m EXCEPT !.counter = @ + 2]

isKeyPressed(m, key) == isPressed(m.input, key)

(* A store into a register: the Uint8Array wraps the value. *)
setRegister(m, r, v) == [m EXCEPT !.registers[r] = ToUint8(v)]

Return(m) == [vm |-> m, thrown |-> "none"]
Throw(m, error) == [vm |-> m, thrown |-> error]

----------------------------------------------------------------------------
(* instructions: one operator per handler *)

(* Mutant: 9xy0 tests for equality like 5xy0. *)
skip_copyPaste(opcode, m) ==
  LET identifier == BitAnd(opcode, \hF000)
      register1 == nibbleSecond(opcode)
      register2 == nibbleThird(opcode)
      value == BitAnd(opcode, \h00FF)
      skipIf(cond) ==
        Return(incrementCounter(IF cond THEN incrementCounter(m) ELSE m))
  IN  CASE identifier = \h3000 -> skipIf(m.registers[register1] = value)
        [] identifier = \h4000 -> skipIf(m.registers[register1] # value)
        [] identifier = \h5000 -> skipIf(m.registers[register1] = m.registers[register2])
        [] identifier = \h9000 -> skipIf(m.registers[register1] = m.registers[register2])
        [] OTHER -> Throw(m, "OpcodeError")

skip(opcode, m) ==
  LET identifier == BitAnd(opcode, \hF000)
      register1 == nibbleSecond(opcode)
      register2 == nibbleThird(opcode)
      value == BitAnd(opcode, \h00FF)
      skipIf(cond) ==
        Return(incrementCounter(IF cond THEN incrementCounter(m) ELSE m))
  IN  CASE identifier = \h3000 -> skipIf(m.registers[register1] = value)
        [] identifier = \h4000 -> skipIf(m.registers[register1] # value)
        [] identifier = \h5000 -> skipIf(m.registers[register1] = m.registers[register2])
        [] identifier = \h9000 -> skipIf(m.registers[register1] # m.registers[register2])
        [] OTHER -> Throw(m, "OpcodeError")

(* Mutant: the return restores the pushed counter and does not step past the
   call. *)
subroutine_noAdvance(opcode, m) ==
  LET identifier == IF opcode # \hEE THEN BitAnd(opcode, \hF000) ELSE opcode
  IN  CASE identifier = \h0000 -> Return(incrementCounter(m))
        [] identifier = \h00EE ->
             IF m.stack = <<>> THEN Throw(m, "StackError")
             ELSE Return([m EXCEPT !.counter = m.stack[Len(m.stack)],
                                   !.stack = SubSeq(@, 1, Len(@) - 1)])
        [] identifier = \h2000 ->
             Return([m EXCEPT !.stack = Append(@, m.counter),
                              !.counter = withoutFirst(opcode)])
        [] OTHER -> Throw(m, "OpcodeError")

(* Mutant: a return with an empty stack is skipped like a no-op. *)
subroutine_emptyPopSkipped(opcode, m) ==
  LET identifier == IF opcode # \hEE THEN BitAnd(opcode, \hF000) ELSE opcode
  IN  CASE identifier = \h0000 -> Return(incrementCounter(m))
        [] identifier = \h00EE ->
             IF m.stack = <<>> THEN Return(incrementCounter(m))
             ELSE Return(incrementCounter(
                    [m EXCEPT !.counter = m.stack[Len(m.stack)],
                              !.stack = SubSeq(@, 1, Len(@) - 1)]))
        [] identifier = \h2000 ->
             Return([m EXCEPT !.stack = Append(@, m.counter),
                              !.counter = withoutFirst(opcode)])
        [] OTHER -> Throw(m, "OpcodeError")

(* Array.pop() of an empty stack returns undefined and changes nothing. *)
subroutine(opcode, m) ==
  LET identifier == IF opcode # \hEE THEN BitAnd(opcode, \hF000) ELSE opcode
  IN  CASE identifier = \h0000 -> Return(incrementCounter(m))
        [] identifier = \h00EE ->
             IF m.stack = <<>> THEN Throw(m, "StackError")
             ELSE LET address == m.stack[Len(m.stack)]
                      popped == [m EXCEPT !.stack = SubSeq(@, 1, Len(@) - 1)]
                  IN  Return(incrementCounter([popped EXCEPT !.counter = address]))
        [] identifier = \h2000 ->
             LET subroutineAddress == withoutFirst(opcode)
             IN  Return([m EXCEPT !.stack = Append(@, m.counter),
                                  !.counter = subroutineAddress])
        [] OTHER -> Throw(m, "OpcodeError")

(* Mutant: Bnnn wraps the counter to 16 bits and never throws. *)
jump_wraps16(opcode, m) ==
  LET identifier == BitAnd(opcode, \hF000)
  IN  CASE identifier = \h1000 -> Return([m EXCEPT !.counter = withoutFirst(opcode)])
        [] identifier = \hB000 ->
             LET value == withoutFirst(opcode)
             IN  Return([m EXCEPT !.counter = (value + m.registers[0]) % 65536])
        [] OTHER -> Throw(m, "OpcodeError")

(* Bnnn assigns the counter before it tests it: the throw leaves it assigned. *)
jump(opcode, m) ==
  LET identifier == BitAnd(opcode, \hF000)
  IN  CASE identifier = \h1000 -> Return([m EXCEPT !.counter = withoutFirst(opcode)])
        [] identifier = \hB000 ->
             LET value == withoutFirst(opcode)
                 jumped == [m EXCEPT !.counter = value + m.registers[0]]
             IN  IF jumped.counter >= SIXTEEN_BIT_WRAP
                 THEN Throw(jumped, "Error")
                 ELSE Return(jumped)
        [] OTHER -> Throw(m, "OpcodeError")

timer(opcode, m) ==
  LET operation == BitAnd(opcode, \h00FF)
      register == nibbleSecond(opcode)
  IN  CASE operation = \h07 ->
             Return(incrementCounter(setRegister(m, register, m.delayTimer)))
        [] operation = \h15 ->
             Return(incrementCounter([m EXCEPT !.delayTimer = m.registers[register]]))
        [] operation = \h18 ->
             Return(incrementCounter([m EXCEPT !.soundTimer = m.registers[register]]))
        [] OTHER -> Throw(m, "OpcodeError")

(* Mutant: 8xy4 writes the carry before the sum, so the sum overwrites it in VF. *)
betweenRegisters_carryFirst(opcode, m) ==
  LET operation == BitAnd(opcode, \h000F)
      register1 == nibbleSecond(opcode)
      register2 == nibbleThird(opcode)
      vx == m.registers[register1]
      vy == m.registers[register2]
  IN  CASE operation = 0 -> Return(incrementCounter(setRegister(m, register1, vy)))
        [] operation = 1 ->
             Return(incrementCounter(setRegister(m, register1, BitOr(vx, vy))))
        [] operation = 2 ->
             Return(incrementCounter(setRegister(m, register1, BitAnd(vx, vy))))
        [] operation = 3 ->
             Return(incrementCounter(setRegister(m, register1, BitXor(vx, vy))))
        [] operation = 4 ->
             LET sum == vx + vy
             IN  Return(incrementCounter(
                   setRegister(setRegister(m, 15, IF sum >= EIGHT_BIT_WRAP THEN 1 ELSE 0),
                               register1, sum)))
        [] operation = 5 ->
             LET sub == vx - vy
             IN  Return(incrementCounter(
                   setRegister(setRegister(m, register1, sub), 15,
                               IF sub < 0 THEN 0 ELSE 1)))
        [] operation = 6 ->
             LET flagged == setRegister(m, 15, BitAnd(vx, 1))
             IN  Return(incrementCounter(
                   setRegister(flagged, register1, flagged.registers[register1] \div 2)))
        [] operation = 7 ->
             LET sub == vy - vx
             IN  Return(incrementCounter(
                   setRegister(setRegister(m, register1, sub), 15,
                               IF sub < 0 THEN 0 ELSE 1)))
        [] operation = 14 ->
             LET flagged == setRegister(m, 15, vx \div 128)
             IN  Return(incrementCounter(
                   setRegister(flagged, register1,
                               BitAnd(flagged.registers[register1] * 2, \hFF))))
        [] OTHER -> Throw(m, "OpcodeError")

(* Mutant: 8xy5 takes equal operands for a borrow (<= for <). *)
betweenRegisters_borrowOnEqual(opcode, m) ==
  LET operation == BitAnd(opcode, \h000F)
      register1 == nibbleSecond(opcode)
      register2 == nibbleThird(opcode)
      vx == m.registers[register1]
      vy == m.registers[register2]
  IN  CASE operation = 0 -> Return(incrementCounter(setRegister(m, register1, vy)))
        [] operation = 1 ->
             Return(incrementCounter(setRegister(m, register1, BitOr(vx, vy))))
        [] operation = 2 ->
             Return(incrementCounter(setRegister(m, register1, BitAnd(vx, vy))))
        [] operation = 3 ->
             Return(incrementCounter(setRegister(m, register1, BitXor(vx, vy))))
        [] operation = 4 ->
             LET sum == vx + vy
             IN  Return(incrementCounter(
                   setRegister(setRegister(m, register1, sum), 15,
                               IF sum >= EIGHT_BIT_WRAP THEN 1 ELSE 0)))
        [] operation = 5 ->
             LET sub == vx - vy
             IN  Return(incrementCounter(
                   setRegister(setRegister(m, register1, sub), 15,
                               IF sub <= 0 THEN 0 ELSE 1)))
        [] operation = 6 ->
             LET flagged == setRegister(m, 15, BitAnd(vx, 1))
             IN  Return(incrementCounter(
                   setRegister(flagged, register1, flagged.registers[register1] \div 2)))
        [] operation = 7 ->
             LET sub == vy - vx
             IN  Return(incrementCounter(
                   setRegister(setRegister(m, register1, sub), 15,
                               IF sub < 0 THEN 0 ELSE 1)))
        [] operation = 14 ->
             LET flagged == setRegister(m, 15, vx \div 128)
             IN  Return(incrementCounter(
                   setRegister(flagged, register1,
                               BitAnd(flagged.registers[register1] * 2, \hFF))))
        [] OTHER -> Throw(m, "OpcodeError")

(* Mutant: 8xy6 shifts Vy into Vx and takes the flag from Vy. *)
betweenRegisters_shiftsVy(opcode, m) ==
  LET operation == BitAnd(opcode, \h000F)
      register1 == nibbleSecond(opcode)
      register2 == nibbleThird(opcode)
      vx == m.registers[register1]
      vy == m.registers[register2]
  IN  CASE operation = 0 -> Return(incrementCounter(setRegister(m, register1, vy)))
        [] operation = 1 ->
             Return(incrementCounter(setRegister(m, register1, BitOr(vx, vy))))
        [] operation = 2 ->
             Return(incrementCounter(setRegister(m, register1, BitAnd(vx, vy))))
        [] operation = 3 ->
             Return(incrementCounter(setRegister(m, register1, BitXor(vx, vy))))
        [] operation = 4 ->
             LET sum == vx + vy
             IN  Return(incrementCounter(
                   setRegister(setRegister(m, register1, sum), 15,
                               IF sum >= EIGHT_BIT_WRAP THEN 1 ELSE 0)))
        [] operation = 5 ->
             LET sub == vx - vy
             IN  Return(incrementCounter(
                   setRegister(setRegister(m, register1, sub), 15,
                               IF sub < 0 THEN 0 ELSE 1)))
        [] operation = 6 ->
             LET flagged == setRegister(m, 15, BitAnd(vy, 1))
             IN  Return(incrementCounter(
                   setRegister(flagged, register1, flagged.registers[register2] \div 2)))
        [] operation = 7 ->
             LET sub == vy - vx
             IN  Return(incrementCounter(
                   setRegister(setRegister(m, register1, sub), 15,
                               IF sub < 0 THEN 0 ELSE 1)))
        [] operation = 14 ->
             LET flagged == setRegister(m, 15, vx \div 128)
             IN  Return(incrementCounter(
                   setRegister(flagged, register1,
                               BitAnd(flagged.registers[register1] * 2, \hFF))))
        [] OTHER -> Throw(m, "OpcodeError")

(* The flag register is written in the order of the source: after Vx for the
   additions and subtractions, before Vx (which is then read again) for the
   shifts. *)
betweenRegisters(opcode, m) ==
  LET operation == BitAnd(opcode, \h000F)
      register1 == nibbleSecond(opcode)
      register2 == nibbleThird(opcode)
      vx == m.registers[register1]
      vy == m.registers[register2]
  IN  CASE operation = 0 -> Return(incrementCounter(setRegister(m, register1, vy)))
        [] operation = 1 ->
             Return(incrementCounter(setRegister(m, register1, BitOr(vx, vy))))
        [] operation = 2 ->
             Return(incrementCounter(setRegister(m, register1, BitAnd(vx, vy))))
        [] operation = 3 ->
             Return(incrementCounter(setRegister(m, register1, BitXor(vx, vy))))
        [] operation = 4 ->
             LET sum == vx + vy
             IN  Return(incrementCounter(
                   setRegister(setRegister(m, register1, sum), 15,
                               IF sum >= EIGHT_BIT_WRAP THEN 1 ELSE 0)))
        [] operation = 5 ->
             LET sub == vx - vy
             IN  Return(incrementCounter(
                   setRegister(setRegister(m, register1, sub), 15,
                               IF sub < 0 THEN 0 ELSE 1)))
        [] operation = 6 ->
             LET flagged == setRegister(m, 15, BitAnd(vx, 1))
             IN  Return(incrementCounter(
                   setRegister(flagged, register1, flagged.registers[register1] \div 2)))
        [] operation = 7 ->
             LET sub == vy - vx
             IN  Return(incrementCounter(
                   setRegister(setRegister(m, register1, sub), 15,
                               IF sub < 0 THEN 0 ELSE 1)))
        [] operation = 14 ->
             LET flagged == setRegister(m, 15, vx \div 128)
             IN  Return(incrementCounter(
                   setRegister(flagged, register1,
                               BitAnd(flagged.registers[register1] * 2, \hFF))))
        [] OTHER -> Throw(m, "OpcodeError")

(* Mutant: 7xkk sets VF to the carry of the addition. *)
register_addSetsCarry(opcode, m, rnd) ==
  LET instruction == BitAnd(opcode, \hF000)
      reg == nibbleSecond(opcode)
      value == BitAnd(opcode, \h00FF)
  IN  CASE instruction = \h6000 -> Return(incrementCounter(setRegister(m, reg, value)))
        [] instruction = \h7000 ->
             Return(incrementCounter(
               setRegister(setRegister(m, reg, m.registers[reg] + value), 15,
                           IF m.registers[reg] + value >= EIGHT_BIT_WRAP THEN 1 ELSE 0)))
        [] instruction = \hC000 ->
             Return(incrementCounter(
               setRegister(m, reg, BitAnd(BitAnd(opcode, \h00FF), rnd))))
        [] OTHER -> Throw(m, "OpcodeError")

(* rnd is the byte randomByte() returns. *)
register(opcode, m, rnd) ==
  LET instruction == BitAnd(opcode, \hF000)
      reg == nibbleSecond(opcode)
      value == BitAnd(opcode, \h00FF)
  IN  CASE instruction = \h6000 -> Return(incrementCounter(setRegister(m, reg, value)))
        [] instruction = \h7000 ->
             Return(incrementCounter(setRegister(m, reg, m.registers[reg] + value)))
        [] instruction = \hC000 ->
             Return(incrementCounter(
               setRegister(m, reg, BitAnd(BitAnd(opcode, \h00FF), rnd))))
        [] OTHER -> Throw(m, "OpcodeError")

(* Mutant: the Fx55 loop stops before the last register. *)
RECURSIVE copyRegisters_stopsEarly(_, _, _)
copyRegisters_stopsEarly(m, reg, lastRegister) ==
  IF reg >= lastRegister THEN m
  ELSE copyRegisters_stopsEarly(
         [m EXCEPT !.memory = writeMemory(@, m.address, m.registers[reg]),
                   !.address = @ + 1],
         reg + 1, lastRegister)

(* The loop of Fx55: memory[address] = registers[register]; address++ *)
RECURSIVE copyRegisters(_, _, _)
copyRegisters(m, reg, lastRegister) ==
  IF reg > lastRegister THEN m
  ELSE copyRegisters(
         [m EXCEPT !.memory = writeMemory(@, m.address, m.registers[reg]),
                   !.address = @ + 1],
         reg + 1, lastRegister)

(* Mutant: the Fx65 loop stops before the last register. *)
RECURSIVE loadRegisters_stopsEarly(_, _, _)
loadRegisters_stopsEarly(m, reg, lastRegister) ==
  IF reg >= lastRegister THEN m
  ELSE loadRegisters_stopsEarly(
         [setRegister(m, reg, readMemory(m.memory, m.address)) EXCEPT !.address = @ + 1],
         reg + 1, lastRegister)

(* The loop of Fx65: registers[register] = memory[address]; address++ *)
RECURSIVE loadRegisters(_, _, _)
loadRegisters(m, reg, lastRegister) ==
  IF reg > lastRegister THEN m
  ELSE loadRegisters(
         [setRegister(m, reg, readMemory(m.memory, m.address)) EXCEPT !.address = @ + 1],
         reg + 1, lastRegister)

(* The loop of Fx33 over the three digits. *)
RECURSIVE storeDigits(_, _, _)
storeDigits(m, binaryCodedDigits, offset) ==
  IF offset >= 3 THEN m
  ELSE storeDigits(
         [m EXCEPT !.memory = writeMemory(@, m.address + offset,
                                          binaryCodedDigits[offset + 1])],
         binaryCodedDigits, offset + 1)

(* Mutant: Fx1E wraps I at 16 bits and leaves VF alone. *)
memory_addKeepsFlag(opcode, m) ==
  LET identifier == BitAnd(opcode, \hF000)
      reg == nibbleSecond(opcode)
  IN  IF identifier = \hA000 THEN
        Return(incrementCounter([m EXCEPT !.address = withoutFirst(opcode)]))
      ELSE IF withoutSecond(opcode) = \hF01E THEN
        LET newAddress == m.address + m.registers[reg]
        IN  Return(incrementCounter(
              [m EXCEPT !.address = newAddress % (SIXTEEN_BIT_WRAP * 16)]))
      ELSE IF withoutSecond(opcode) = \hF055 THEN
        Return(incrementCounter(copyRegisters(m, 0, reg)))
      ELSE IF withoutSecond(opcode) = \hF065 THEN
        Return(incrementCounter(loadRegisters(m, 0, reg)))
      ELSE IF withoutSecond(opcode) = \hF033 THEN
        Return(incrementCounter(storeDigits(m, bcd(m.registers[reg]), 0)))
      ELSE IF withoutSecond(opcode) = \hF029 THEN
        Return(incrementCounter([m EXCEPT !.address = m.registers[reg] * 5]))
      ELSE Throw(m, "OpcodeError")

memory(opcode, m) ==
  LET identifier == BitAnd(opcode, \hF000)
      reg == nibbleSecond(opcode)
  IN  IF identifier = \hA000 THEN
        Return(incrementCounter([m EXCEPT !.address = withoutFirst(opcode)]))
      ELSE IF withoutSecond(opcode) = \hF01E THEN
        LET newAddress == m.address + m.registers[reg]
            flagged == setRegister(m, 15, IF newAddress >= SIXTEEN_BIT_WRAP THEN 1 ELSE 0)
        IN  Return(incrementCounter(
              [flagged EXCEPT !.address = newAddress % SIXTEEN_BIT_WRAP]))
      ELSE IF withoutSecond(opcode) = \hF055 THEN
        Return(incrementCounter(copyRegisters(m, 0, reg)))
      ELSE IF withoutSecond(opcode) = \hF065 THEN
        Return(incrementCounter(loadRegisters(m, 0, reg)))
      ELSE IF withoutSecond(opcode) = \hF033 THEN
        Return(incrementCounter(storeDigits(m, bcd(m.registers[reg]), 0)))
      ELSE IF withoutSecond(opcode) = \hF029 THEN
        Return(incrementCounter([m EXCEPT !.address = m.registers[reg] * 5]))
      ELSE Throw(m, "OpcodeError")

(* Mutant: Dxyn reads one byte more, memory[I .. I+n]. *)
display_readsOneMore(opcode, m) ==
  IF opcode = \h00E0 THEN
    Return(incrementCounter([m EXCEPT !.display = clear(@)]))
  ELSE IF nibbleFirst(opcode) = 13 THEN
    LET spriteByteCount == nibbleFourth(opcode)
        spriteBytes == slice(m.memory, m.address, m.address + spriteByteCount + 1)
        xCoordinate == m.registers[nibbleSecond(opcode)]
        yCoordinate == m.registers[nibbleThird(opcode)]
        drawn == drawSprite(m.display, xCoordinate, yCoordinate, spriteBytes)
    IN  Return(incrementCounter(
          setRegister([m EXCEPT !.display = drawn.pixels], 15,
                      IF drawn.pixelsFlipped THEN 1 ELSE 0)))
  ELSE Throw(m, "OpcodeError")

display(opcode, m) ==
  IF opcode = \h00E0 THEN
    Return(incrementCounter([m EXCEPT !.display = clear(@)]))
  ELSE IF nibbleFirst(opcode) = 13 THEN
    LET spriteByteCount == nibbleFourth(opcode)
        spriteBytes == slice(m.memory, m.address, m.address + spriteByteCount)
        xCoordinate == m.registers[nibbleSecond(opcode)]
        yCoordinate == m.registers[nibbleThird(opcode)]
        drawn == drawSprite(m.display, xCoordinate, yCoordinate, spriteBytes)
    IN  Return(incrementCounter(
          setRegister([m EXCEPT !.display = drawn.pixels], 15,
                      IF drawn.pixelsFlipped THEN 1 ELSE 0)))
  ELSE Throw(m, "OpcodeError")

(* The loop of Fx0A over Object.keys(keyMap): the index of the first key
   name whose code is pressed, 0 when none is. *)
RECURSIVE firstPressed(_, _)
firstPressed(m, i) ==
  IF i > Len(keyNames) THEN 0
  ELSE IF isKeyPressed(m, keyMap[keyNames[i]]) THEN i
  ELSE firstPressed(m, i + 1)

(* Mutant: Ex9E and ExA1 test the key whose code is x, not Vx. *)
input_keyOfIndex(opcode, m) ==
  LET identifier == withoutSecond(opcode)
      reg == nibbleSecond(opcode)
      key == reg
  IN  CASE identifier = \hF00A ->
             LET waiting == [m EXCEPT !.waitingForInput = TRUE]
                 found == firstPressed(waiting, 1)
             IN  IF found = 0 THEN Return(waiting)
                 ELSE Return(incrementCounter(
                        setRegister([waiting EXCEPT !.waitingForInput = FALSE],
                                    reg, keyMap[keyNames[found]])))
        [] identifier = \hE0A1 ->
             Return(incrementCounter(
               IF ~isKeyPressed(m, key) THEN incrementCounter(m) ELSE m))
        [] identifier = \hE09E ->
             Return(incrementCounter(
               IF isKeyPressed(m, key) THEN incrementCounter(m) ELSE m))
        [] OTHER -> Throw(m, "OpcodeError")

(* Mutant: Fx0A stores the position of the key in the key map, not its code. *)
input_storesPosition(opcode, m) ==
  LET identifier == withoutSecond(opcode)
      reg == nibbleSecond(opcode)
      key == m.registers[reg]
  IN  CASE identifier = \hF00A ->
             LET waiting == [m EXCEPT !.waitingForInput = TRUE]
                 found == firstPressed(waiting, 1)
             IN  IF found = 0 THEN Return(waiting)
                 ELSE Return(incrementCounter(
                        setRegister([waiting EXCEPT !.waitingForInput = FALSE],
                                    reg, found - 1)))
        [] identifier = \hE0A1 ->
             Return(incrementCounter(
               IF ~isKeyPressed(m, key) THEN incrementCounter(m) ELSE m))
        [] identifier = \hE09E ->
             Return(incrementCounter(
               IF isKeyPressed(m, key) THEN incrementCounter(m) ELSE m))
        [] OTHER -> Throw(m, "OpcodeError")

(* Mutant: Fx0A steps past itself also when no key is pressed. *)
input_advancesOnEntry(opcode, m) ==
  LET identifier == withoutSecond(opcode)
      reg == nibbleSecond(opcode)
      key == m.registers[reg]
  IN  CASE identifier = \hF00A ->
             LET waiting == [m EXCEPT !.waitingForInput = TRUE]
                 found == firstPressed(waiting, 1)
             IN  IF found = 0 THEN Return(incrementCounter(waiting))
                 ELSE Return(incrementCounter(
                        setRegister([waiting EXCEPT !.waitingForInput = FALSE],
                                    reg, keyMap[keyNames[found]])))
        [] identifier = \hE0A1 ->
             Return(incrementCounter(
               IF ~isKeyPressed(m, key) THEN incrementCounter(m) ELSE m))
        [] identifier = \hE09E ->
             Return(incrementCounter(
               IF isKeyPressed(m, key) THEN incrementCounter(m) ELSE m))
        [] OTHER -> Throw(m, "OpcodeError")

input(opcode, m) ==
  LET identifier == withoutSecond(opcode)
      reg == nibbleSecond(opcode)
      key == m.registers[reg]
  IN  CASE identifier = \hF00A ->
             LET waiting == [m EXCEPT !.waitingForInput = TRUE]
                 found == firstPressed(waiting, 1)
             IN  IF found = 0 THEN Return(waiting)
                 ELSE Return(incrementCounter(
                        setRegister([waiting EXCEPT !.waitingForInput = FALSE],
                                    reg, keyMap[keyNames[found]])))
        [] identifier = \hE0A1 ->
             Return(incrementCounter(
               IF ~isKeyPressed(m, key) THEN incrementCounter(m) ELSE m))
        [] identifier = \hE09E ->
             Return(incrementCounter(
               IF isKeyPressed(m, key) THEN incrementCounter(m) ELSE m))
        [] OTHER -> Throw(m, "OpcodeError")

----------------------------------------------------------------------------
(* The VM: execute, next, tick *)

(* Fx75: flags[i] = registers[i] for i = 0..x; the 8-cell array drops a store
   at i >= 8. *)
RECURSIVE storeFlags(_, _, _)
storeFlags(m, i, last) ==
  IF i > last THEN m
  ELSE storeFlags(
         IF i \in DOMAIN m.flags THEN [m EXCEPT !.flags[i] = m.registers[i]] ELSE m,
         i + 1, last)

(* Fx85: registers[i] = flags[i] for i = 0..x; a read at i >= 8 is undefined. *)
RECURSIVE loadFlags(_, _, _)
loadFlags(m, i, last) ==
  IF i > last THEN m
  ELSE loadFlags(
         setRegister(m, i, IF i \in DOMAIN m.flags THEN m.flags[i] ELSE undefined),
         i + 1, last)

execute(opcode, m, rnd) ==
  LET identifier == BitAnd(opcode, \hF000)
      operation == BitAnd(opcode, \h00FF)
  IN  CASE identifier \in {\h1000, \hB000} -> jump(opcode, m)
        [] identifier = \h0000 ->
             IF opcode = \h00E0 THEN display(opcode, m) ELSE subroutine(opcode, m)
        [] identifier = \h2000 -> subroutine(opcode, m)
        [] identifier \in {\h3000, \h4000, \h5000, \h9000} -> skip(opcode, m)
        [] identifier \in {\h6000, \h7000, \hC000} -> register(opcode, m, rnd)
        [] identifier = \h8000 -> betweenRegisters(opcode, m)
        [] identifier = \hA000 -> memory(opcode, m)
        [] identifier = \hD000 -> display(opcode, m)
        [] identifier = \hE000 -> input(opcode, m)
        [] identifier = \hF000 ->
             CASE operation = \h0A -> input(opcode, m)
               [] operation \in {\h07, \h15, \h18} -> timer(opcode, m)
               [] operation \in {\h1E, \h29, \h33, \h55, \h65} -> memory(opcode, m)
               [] operation = \h75 ->
                    Return(incrementCounter(storeFlags(m, 0, nibbleSecond(opcode))))
               [] operation = \h85 ->
                    Return(incrementCounter(loadFlags(m, 0, nibbleSecond(opcode))))
               [] OTHER -> Throw(m, "OpcodeError")
        [] OTHER -> Throw(m, "OpcodeError")

(* The instruction word next() fetches: (memory[counter] << 8) | memory[counter + 1] *)
fetch(m) ==
  BitOr(ToInt(readMemory(m.memory, m.counter)) * 256,
        ToInt(readMemory(m.memory, m.counter + 1)))

(* The bytes randomByte() returns in the model. *)
randomByte == {90, 255}

(* next(): its outcomes, one per byte randomByte() may return. *)
next(m) == {execute(fetch(m), m, rnd) : rnd \in randomByte}

(* Mutant: the timers run down also while the machine waits for input. *)
tickTimers_whileWaiting(m) ==
  [m EXCEPT !.delayTimer = IF @ > 0 THEN @ - 1 ELSE @,
            !.soundTimer = IF @ > 0 THEN @ - 1 ELSE @]

(* Mutant: a timer at 0 is decremented too. *)
tickTimers_belowZero(m) ==
  IF ~m.waitingForInput
  THEN [m EXCEPT !.delayTimer = @ - 1, !.soundTimer = @ - 1]
  ELSE m

(* The timer phase of tick() *)
tickTimers(m) ==
  IF ~m.waitingForInput
  THEN [m EXCEPT !.delayTimer = IF @ > 0 THEN @ - 1 ELSE @,
                 !.soundTimer = IF @ > 0 THEN @ - 1 ELSE @]
  ELSE m

(* Mutant: the loop of tick() runs once more (<= for <). *)
instructionsPerTick_offByOne == (2 * CLOCKSPEED + 60) \div 120 + 1

(* Math.round(CLOCKSPEED / 60) *)
instructionsPerTick == (2 * CLOCKSPEED + 60) \div 120

(* One pass of the loop of tick() over the outcomes so far: a run that has
   thrown stays as it is, any other issues one more next(). An outcome
   carries the number of next() calls issued. *)
tickStep(outcomes) ==
  UNION {IF o.thrown # "none" THEN {o}
         ELSE {[vm |-> n.vm, thrown |-> n.thrown, issued |-> o.issued + 1] :
                 n \in next(o.vm)} : o \in outcomes}

(* The loop of tick(): next() until the count is reached or a call throws. *)
RECURSIVE tickLoop(_, _)
tickLoop(outcomes, i) ==
  IF i >= instructionsPerTick THEN outcomes
  ELSE tickLoop(tickStep(outcomes), i + 1)

tick(m) == tickLoop({[vm |-> tickTimers(m), thrown |-> "none", issued |-> 0]}, 0)

----------------------------------------------------------------------------
(* The environment: ROMs, key events *)

(* initializeVm of the tests: 16-bit opcodes to bytes, high byte first. *)
opcodeBytes(opcodes) ==
  [i \in 1..(2 * Len(opcodes)) |->
     IF i % 2 = 1 THEN opcodes[(i + 1) \div 2] \div 256
     ELSE BitAnd(opcodes[i \div 2], \h00FF)]

(* Timers, the input wait and a return with an empty stack. *)
RomWait ==
  << \h6A03, \hFA15, \hFA18, \hFB0A, \hFC07, \h00EE >>

(* Nested calls: 200 -> 206 -> 20A, returning to 208, 202, then a return
   with an empty stack. *)
RomCalls ==
  << \h2206, \h00EE, \h1204, \h220A, \h00EE, \h00EE >>

(* Skips and words outside the instruction set. *)
RomDecode ==
  << \h5011, \h8008, \h0123, \h6101, \h9011, \h0000, \h5010, \h9010,
     \h0000, \h3000, \h0000, \h4000, \hE09E, \hE0FF, \hE1A1, \hF0FF,
     \hC30F, \h8008 >>

(* Register, memory, flag and display instructions, and the jumps. *)
RomOps ==
  << \h60FF, \h7002, \h6105, \h8014, \h8015, \h8017, \h8016, \h801E,
     \h8013, \hA300, \hF155, \hF033, \hF165, \hF029, \hD015, \hD015,
     \h00E0, \hF175, \hF185, \hF11E, \hF007, \h6002, \hB22E, \h0000,
     \h1232, \h1232 >>

Roms == <<RomWait, RomCalls, RomDecode, RomOps>>

(* Physical keys of the key events: two mapped keys and an unmapped one. *)
Keys == {"1", "x", "p"}

----------------------------------------------------------------------------
(* The specification *)

noProbe == [timers |-> <<0, 0>>, issued |-> 0]

Init ==
  /\ vm = construct
  /\ thrown = "none"
  /\ call = "new"
  /\ pre = construct
  /\ probe = noProbe
  /\ loads = 0

Load ==
  /\ loads < MaxLoads
  /\ \E i \in DOMAIN Roms : vm' = load(vm, opcodeBytes(Roms[i]))
  /\ thrown' = "none"
  /\ call' = "load"
  /\ pre' = vm
  /\ probe' = noProbe
  /\ loads' = loads + 1

(* The model stops stepping a machine whose counter or stack has left the
   bounds. *)
InBounds == vm.counter < MaxCounter /\ Len(vm.stack) <= MaxStack

Next_ ==
  /\ InBounds
  /\ \E o \in next(vm) :
       /\ vm' = o.vm
       /\ thrown' = o.thrown
  /\ call' = "next"
  /\ pre' = vm
  /\ probe' = noProbe
  /\ UNCHANGED loads

Tick ==
  /\ InBounds
  /\ \E o \in tick(vm) :
       /\ vm' = o.vm
       /\ thrown' = o.thrown
       /\ probe' = [timers |-> <<tickTimers(vm).delayTimer, tickTimers(vm).soundTimer>>,
                    issued |-> o.issued]
  /\ call' = "tick"
  /\ pre' = vm
  /\ UNCHANGED loads

KeyDown ==
  /\ \E key \in Keys : vm' = [vm EXCEPT !.input = keydown(@, key)]
  /\ thrown' = "none"
  /\ call' = "keydown"
  /\ pre' = vm
  /\ probe' = noProbe
  /\ UNCHANGED loads

KeyUp ==
  /\ \E key \in Keys : vm' = [vm EXCEPT !.input = keyup(@, key)]
  /\ thrown' = "none"
  /\ call' = "keyup"
  /\ pre' = vm
  /\ probe' = noProbe
  /\ UNCHANGED loads

Next == Load \/ Next_ \/ Tick \/ KeyDown \/ KeyUp

Spec == Init /\ [][Next]_vars

----------------------------------------------------------------------------
(* The instruction specification: one short ROM on a machine whose registers
   and pressed keys an earlier ROM and the keyboard have left behind *)

(* Instructions tried one at a time. *)
Instructions ==
  << \h3001, \h3180, \h3FFF, \h4001, \h4180, \h4FFF,
     \h5010, \h5000, \h5F10, \h50F0, \h9010, \h9000, \h9F10, \h90F0,
     \hE09E, \hE0A1, \hE19E, \hE1A1, \hEF9E, \hEFA1,
     \h8014, \h8104, \h8004, \h8F04, \h80F4, \h8FF4,
     \h8015, \h8105, \h8005, \h8F05, \h80F5,
     \h8017, \h8107, \h8007, \h8F07, \h80F7,
     \h8016, \h8106, \h80F6, \h801E, \h810E, \h80FE,
     \h7001, \h70FF, \h7080, \h7100, \h7F01,
     \hB000, \hB202, \hBF01, \hBFFF,
     \hD015, \hD105, \hD010, \hD01F, \hDF05, \hD0F5,
     \h00EE, \h8008, \hE0FF, \hF0FF,
     \hF033, \hF133, \hFF33, \hF055, \hF155, \hFF55,
     \hF065, \hF165, \hFF65, \hF01E, \hF11E, \hFF1E,
     \hF075, \hF175, \hFF75, \hF029, \hF129,
     \h8F06, \h8F0E >>

(* An instruction at 0x200, followed by jumps to themselves at 0x202 and
   0x204 where the machine then stays. *)
single(opcode) == <<opcode, \h1202, \h1204>>

(* ROMs of two instructions: a sprite drawn twice, two sprites that overlap,
   sprites read at the end of memory and from the loaded ROM, and the
   instructions that use I after Annn has set it. *)
Programs ==
  << <<\hD015, \hD015, \h1204>>,
     <<\hD015, \hD105, \h1204>>,
     <<\hAFFE, \hD015, \h1204>>,
     <<\hA200, \hD01F, \h1204>>,
     <<\hA300, \hF133, \h1204>>,
     <<\hA300, \hF155, \h1204>>,
     <<\hA204, \hF165, \h1204>>,
     <<\hAFFF, \hF11E, \h1204>>,
     <<\hAFFE, \hF133, \h1204>>,
     <<\hAFFF, \hF155, \h1204>>,
     <<\hAFFF, \hF165, \h1204>> >>

OpRoms ==
  {single(Instructions[i]) : i \in DOMAIN Instructions}
    \cup {Programs[i] : i \in DOMAIN Programs}

(* Values of V0 and V1, values of VF, and the sets of pressed key codes. *)
OpValues == {0, 1, 128, 255}
OpFlags == {0, 255}
OpInputs == {{}, {1}, {0, 1}}

OpInit ==
  \E rom \in OpRoms, v0 \in OpValues, v1 \in OpValues, vf \in OpFlags,
     keys \in OpInputs :
    LET before == [construct EXCEPT !.registers[0] = v0,
                                    !.registers[1] = v1,
                                    !.registers[15] = vf,
                                    !.input = keys]
    IN  /\ vm = load(before, opcodeBytes(rom))
        /\ pre = before
  /\ thrown = "none"
  /\ call = "load"
  /\ probe = noProbe
  /\ loads = 1

OpNext == Next_

OpSpec == OpInit /\ [][OpNext]_vars

----------------------------------------------------------------------------
(* The reload specification: ROMs loaded one over the other into the same
   machine, which load() does not reset *)

MaxReloads == 2

(* Saves V0 in the first flag cell. *)
RomSave == <<\h60AB, \hF075, \h1204>>
(* Restores V0 and V1 from the flag cells. *)
RomRestore == <<\h6011, \h6122, \hF185, \h1206>>
(* Points I at the glyphs of F and of 0. *)
RomGlyph == <<\h600F, \hF029, \h6000, \hF029, \h1208>>
(* A ROM of one instruction, shorter than every other. *)
RomShort == <<\h1200>>

(* The four ROMs above and the ROM of register, memory, flag and display
   instructions. *)
ReloadRoms == <<RomSave, RomRestore, RomGlyph, RomShort, RomOps>>

Reload ==
  /\ loads < MaxReloads
  /\ \E i \in DOMAIN ReloadRoms : vm' = load(vm, opcodeBytes(ReloadRoms[i]))
  /\ thrown' = "none"
  /\ call' = "load"
  /\ pre' = vm
  /\ probe' = noProbe
  /\ loads' = loads + 1

ReloadNext == Reload \/ Next_ \/ Tick

ReloadSpec == Init /\ [][ReloadNext]_vars

----------------------------------------------------------------------------
(* The reset specification: the host's loadRom() calls vm.reset() before it
   loads a ROM. reset() is not among the files of the engine; it is modelled
   on its description: registers, I, memory with the fonts re-seeded, stack,
   timers, PC, flags and wait state as constructed, the display and input
   objects kept. *)

(* Mutant: reset() leaves the memory as it is. *)
reset_keepsMemory(m) ==
  [construct EXCEPT !.memory = m.memory, !.display = m.display, !.input = m.input]

reset(m) ==
  [construct EXCEPT !.display = m.display, !.input = m.input]

Reset ==
  /\ vm' = reset(vm)
  /\ thrown' = "none"
  /\ call' = "reset"
  /\ pre' = vm
  /\ probe' = noProbe
  /\ UNCHANGED loads

ResetNext == Reset \/ Reload \/ Next_ \/ Tick

ResetSpec == Init /\ [][ResetNext]_vars

----------------------------------------------------------------------------
(* The switch specification: a ROM loaded over a ROM that waits for a key,
   with key events *)

SwitchRoms == <<RomWait, RomGlyph>>

Switch ==
  /\ loads < MaxReloads
  /\ \E i \in DOMAIN SwitchRoms : vm' = load(vm, opcodeBytes(SwitchRoms[i]))
  /\ thrown' = "none"
  /\ call' = "load"
  /\ pre' = vm
  /\ probe' = noProbe
  /\ loads' = loads + 1

SwitchNext == Switch \/ Next_ \/ Tick \/ KeyDown \/ KeyUp

SwitchSpec == Init /\ [][SwitchNext]_vars

----------------------------------------------------------------------------
(* Vocabulary of the properties *)

(* The instruction word the last next() fetched. *)
fetched == fetch(pre)

(* The instruction patterns of the instruction set. *)
isJump(op) == nibbleFirst(op) = 1
isCall(op) == nibbleFirst(op) = 2
isReturn(op) == op = \h00EE
isJumpOffset(op) == nibbleFirst(op) = 11
isWaitKey(op) == nibbleFirst(op) = 15 /\ BitAnd(op, \h00FF) = \h0A

isDefined(op) ==
  LET family == nibbleFirst(op)
      low == BitAnd(op, \h00FF)
      last == nibbleFourth(op)
  IN  \/ op \in {\h00E0, \h00EE}
      \/ family \in {1, 2, 3, 4, 6, 7, 10, 11, 12, 13}
      \/ family \in {5, 9} /\ last = 0
      \/ family = 8 /\ last \in (0..7) \cup {14}
      \/ family = 14 /\ low \in {\h9E, \hA1}
      \/ family = 15 /\ low \in {\h07, \h0A, \h15, \h18, \h1E, \h29, \h33,
                                 \h55, \h65, \h75, \h85}

(* op is one of the conditional skips 3xkk, 4xkk, 5xy0, 9xy0, Ex9E, ExA1 and
   its condition holds in machine m. *)
skipTaken(op, m) ==
  LET family == nibbleFirst(op)
      vx == m.registers[nibbleSecond(op)]
      vy == m.registers[nibbleThird(op)]
      kk == BitAnd(op, \h00FF)
  IN  \/ family = 3 /\ vx = kk
      \/ family = 4 /\ vx # kk
      \/ family = 5 /\ nibbleFourth(op) = 0 /\ vx = vy
      \/ family = 9 /\ nibbleFourth(op) = 0 /\ vx # vy
      \/ family = 14 /\ kk = \h9E /\ vx \in m.input
      \/ family = 14 /\ kk = \hA1 /\ vx \notin m.input

(* The machine waits on the Fx0A its counter points at. *)
blocked(m) == m.waitingForInput /\ isWaitKey(fetch(m))

decremented(t) == IF t > 0 THEN t - 1 ELSE 0

----------------------------------------------------------------------------
(* Properties *)

(* C1: a next() that returns from an opcode other than 1nnn, 2nnn, 00EE, Bnnn
   and Fx0A moves the counter by 4 when the opcode is one of the conditional
   skips 3xkk, 4xkk, 5xy0, 9xy0, Ex9E, ExA1 and its condition holds, and by 2
   otherwise. *)
C1_CounterPolicy ==
  (/\ call = "next"
   /\ thrown = "none"
   /\ ~(isJump(fetched) \/ isCall(fetched) \/ isReturn(fetched)
        \/ isJumpOffset(fetched) \/ isWaitKey(fetched)))
  => vm.counter = pre.counter + (IF skipTaken(fetched, pre) THEN 4 ELSE 2)

(* C2: a next() or tick() on a machine that waits on Fx0A with no key pressed
   changes nothing of the machine and returns. *)
C2_BlockedIsFrozen ==
  (call \in {"next", "tick"} /\ blocked(pre) /\ pre.input = {})
  => vm = pre /\ thrown = "none"

C2_Witness ==
  /\ call = "tick"
  /\ blocked(pre)
  /\ pre.input = {}
  /\ pre.delayTimer > 0
  /\ pre.soundTimer > 0

(* C3: a next() on a machine that waits on Fx0A with a key pressed stores the
   code of a pressed key in Vx, moves the counter by 2, ends the wait and
   changes no other register. *)
C3_WaitResolves ==
  (call = "next" /\ blocked(pre) /\ pre.input # {})
  => LET x == nibbleSecond(fetched)
     IN  /\ thrown = "none"
         /\ vm.registers[x] \in pre.input
         /\ vm.registers[x] \in 0..15
         /\ vm.counter = pre.counter + 2
         /\ ~vm.waitingForInput
         /\ \A r \in 0..15 : r # x => vm.registers[r] = pre.registers[r]

C3_Witness ==
  /\ call = "next"
  /\ blocked(pre)
  /\ Cardinality(pre.input) = 2
  /\ ~vm.waitingForInput

(* C4, as stated: the next() that executes Fx0A on a machine that is not
   waiting leaves it waiting with the counter where it was, whatever keys are
   pressed. *)
C4_EntryNeverAdvances ==
  (call = "next" /\ ~pre.waitingForInput /\ isWaitKey(fetched))
  => vm.waitingForInput /\ vm.counter = pre.counter

(* C4, amended: the next() that executes Fx0A on a machine that is not waiting
   leaves it waiting with the counter and the registers where they were when
   no key is pressed; when a key is pressed the same next() stores the key,
   moves the counter by 2 and leaves the machine not waiting. *)
C4_EntryAdvancesOnlyOnKey ==
  (call = "next" /\ ~pre.waitingForInput /\ isWaitKey(fetched))
  => /\ thrown = "none"
     /\ IF pre.input = {}
        THEN /\ vm.waitingForInput
             /\ vm.counter = pre.counter
             /\ vm.registers = pre.registers
        ELSE /\ ~vm.waitingForInput
             /\ vm.counter = pre.counter + 2
             /\ vm.registers[nibbleSecond(fetched)] \in pre.input

C4_Witness ==
  /\ call = "next"
  /\ ~pre.waitingForInput
  /\ isWaitKey(fetched)
  /\ pre.input = {}
  /\ vm.waitingForInput

(* C5: the timer phase of a tick() on a machine that waits for input leaves
   both timers as they were. *)
C5_NoDecrementWhileWaiting ==
  (call = "tick" /\ pre.waitingForInput)
  => probe.timers = <<pre.delayTimer, pre.soundTimer>>

C5_Witness ==
  /\ call = "tick"
  /\ pre.waitingForInput
  /\ pre.delayTimer > 0
  /\ pre.soundTimer > 0
  /\ probe.issued = instructionsPerTick

(* C6: the timer phase of a tick() on a machine that does not wait for input
   lowers each nonzero timer by 1 and leaves a timer at 0, however many
   instructions the tick goes on to execute; both timers are always in
   0..255. *)
C6_TimerPhase ==
  /\ (call = "tick" /\ ~pre.waitingForInput)
     => probe.timers = <<decremented(pre.delayTimer), decremented(pre.soundTimer)>>
  /\ vm.delayTimer \in 0..255
  /\ vm.soundTimer \in 0..255

C6_Witness ==
  /\ call = "tick"
  /\ ~pre.waitingForInput
  /\ pre.delayTimer > 1
  /\ pre.soundTimer > 1
  /\ probe.timers = <<pre.delayTimer - 1, pre.soundTimer - 1>>
  /\ probe.issued < instructionsPerTick

(* C7: a tick() that returns has issued exactly 10 next() calls, also on a
   machine that waits for input. *)
C7_TenCallsPerTick ==
  (call = "tick" /\ thrown = "none") => probe.issued = 10

C7_Witness ==
  /\ call = "tick"
  /\ thrown = "none"
  /\ blocked(pre)
  /\ probe.issued = 10

(* C8: 2nnn pushes the counter and sets the counter to nnn; 00EE with a
   nonempty stack pops the last pushed counter p and sets the counter to
   p + 2, leaving the stack as it was before the matching call. *)
C8_CallReturn ==
  /\ (call = "next" /\ isCall(fetched))
     => /\ thrown = "none"
        /\ vm.stack = Append(pre.stack, pre.counter)
        /\ vm.counter = withoutFirst(fetched)
  /\ (call = "next" /\ isReturn(fetched) /\ pre.stack # <<>>)
     => /\ thrown = "none"
        /\ vm.counter = pre.stack[Len(pre.stack)] + 2
        /\ vm.stack = SubSeq(pre.stack, 1, Len(pre.stack) - 1)

C8_Witness ==
  /\ call = "next"
  /\ isReturn(fetched)
  /\ Len(pre.stack) = 2
  /\ Len(vm.stack) = 1
  /\ vm.counter = pre.stack[2] + 2

(* C9: 00EE with an empty stack throws StackError and changes nothing of the
   machine. *)
C9_EmptyReturnThrows ==
  (call = "next" /\ isReturn(fetched) /\ pre.stack = <<>>)
  => thrown = "StackError" /\ vm = pre

C9_Witness ==
  /\ call = "next"
  /\ isReturn(fetched)
  /\ pre.stack = <<>>
  /\ thrown = "StackError"

(* C10: a next() that fetches a word matching no instruction pattern throws
   OpcodeError and executes nothing. *)
C10_UnknownOpcodeThrows ==
  (call = "next" /\ ~isDefined(fetched))
  => thrown = "OpcodeError" /\ vm = pre

----------------------------------------------------------------------------
(* Vocabulary of the instruction properties *)

(* The register indices and the immediate of the last fetched word, and the
   registers other than the listed ones left as they were. *)
fetchedX == nibbleSecond(fetched)
fetchedY == nibbleThird(fetched)
fetchedKK == BitAnd(fetched, \h00FF)
registersKeptExcept(changed) ==
  \A r \in 0..15 : r \notin changed => vm.registers[r] = pre.registers[r]

(* The last call was a next() that fetched a word of the given family (first
   nibble). *)
stepped(family) == call = "next" /\ nibbleFirst(fetched) = family

----------------------------------------------------------------------------
(* Properties of the instructions *)

(* C11: a next() that throws, whatever the error, leaves the counter, the
   registers, I, memory, the stack, the timers, the HP48 flags and the wait
   flag as they were before it. *)
C11_ErrorLeavesState ==
  (call = "next" /\ thrown # "none")
  => /\ vm.counter = pre.counter
     /\ vm.registers = pre.registers
     /\ vm.address = pre.address
     /\ vm.memory = pre.memory
     /\ vm.stack = pre.stack
     /\ vm.delayTimer = pre.delayTimer
     /\ vm.soundTimer = pre.soundTimer
     /\ vm.flags = pre.flags
     /\ vm.waitingForInput = pre.waitingForInput

(* C12: 3xkk moves the counter by 4 when Vx = kk, 4xkk when Vx # kk, 5xy0
   when Vx = Vy, 9xy0 when Vx # Vy, and by 2 otherwise; none of them changes
   a register, I, memory, the stack or a timer. *)
C12_RegisterSkips ==
  (/\ call = "next"
   /\ \/ nibbleFirst(fetched) \in {3, 4}
      \/ nibbleFirst(fetched) \in {5, 9} /\ nibbleFourth(fetched) = 0)
  => LET family == nibbleFirst(fetched)
         vx == pre.registers[fetchedX]
         vy == pre.registers[fetchedY]
         holds == CASE family = 3 -> vx = fetchedKK
                    [] family = 4 -> vx # fetchedKK
                    [] family = 5 -> vx = vy
                    [] family = 9 -> vx # vy
     IN  /\ thrown = "none"
         /\ vm.counter = pre.counter + (IF holds THEN 4 ELSE 2)
         /\ vm.registers = pre.registers
         /\ vm.address = pre.address
         /\ vm.memory = pre.memory
         /\ vm.stack = pre.stack
         /\ vm.delayTimer = pre.delayTimer
         /\ vm.soundTimer = pre.soundTimer

C12_Witness ==
  /\ call = "next"
  /\ fetched = \h9F10
  /\ pre.registers[15] = 255
  /\ pre.registers[1] = 128
  /\ vm.counter = pre.counter + 4

(* C13: Ex9E moves the counter by 4 when the key whose code is Vx is pressed
   and by 2 otherwise, ExA1 by 4 when it is not pressed and by 2 otherwise;
   neither changes a register or the wait flag. *)
C13_KeySkips ==
  (stepped(14) /\ fetchedKK \in {\h9E, \hA1})
  => LET pressed == pre.registers[fetchedX] \in pre.input
         holds == IF fetchedKK = \h9E THEN pressed ELSE ~pressed
     IN  /\ thrown = "none"
         /\ vm.counter = pre.counter + (IF holds THEN 4 ELSE 2)
         /\ vm.registers = pre.registers
         /\ vm.waitingForInput = pre.waitingForInput

C13_Witness ==
  /\ call = "next"
  /\ fetched = \hE19E
  /\ pre.registers[1] = 0
  /\ pre.input = {0, 1}
  /\ vm.counter = pre.counter + 4

(* C14: 8xy4 leaves VF = 1 when the sum of the two operands is at least 256
   and VF = 0 otherwise, for every x and y; for x # F it leaves
   Vx = (Vx + Vy) mod 256. *)
C14_AddCarry ==
  (stepped(8) /\ nibbleFourth(fetched) = 4)
  => LET sum == pre.registers[fetchedX] + pre.registers[fetchedY]
     IN  /\ thrown = "none"
         /\ vm.registers[15] = (IF sum >= 256 THEN 1 ELSE 0)
         /\ fetchedX # 15 => vm.registers[fetchedX] = sum % 256

C14_Witness ==
  /\ call = "next"
  /\ fetched = \h8FF4
  /\ pre.registers[15] = 255
  /\ vm.registers[15] = 1

(* C15: 8xy5 computes Vx - Vy and 8xy7 computes Vy - Vx; VF is left 0 when
   the difference is negative and 1 otherwise (1 for equal operands), and for
   x # F Vx is left the difference modulo 256. *)
C15_SubBorrow ==
  (stepped(8) /\ nibbleFourth(fetched) \in {5, 7})
  => LET vx == pre.registers[fetchedX]
         vy == pre.registers[fetchedY]
         difference == IF nibbleFourth(fetched) = 5 THEN vx - vy ELSE vy - vx
     IN  /\ thrown = "none"
         /\ vm.registers[15] = (IF difference < 0 THEN 0 ELSE 1)
         /\ fetchedX # 15 => vm.registers[fetchedX] = (difference + 256) % 256

C15_Witness ==
  /\ call = "next"
  /\ fetched = \h8015
  /\ pre.registers[0] = 128
  /\ pre.registers[1] = 128
  /\ pre.registers[15] = 0
  /\ vm.registers[15] = 1
  /\ vm.registers[0] = 0

(* C16: for x # F and v the value of Vx, 8xy6 leaves VF = v & 1 and
   Vx = v >> 1, and 8xyE leaves VF = v >> 7 and Vx = (v << 1) & 0xFF; no
   register other than Vx and VF changes, whatever Vy holds. *)
C16_ShiftInPlace ==
  (stepped(8) /\ nibbleFourth(fetched) \in {6, 14} /\ fetchedX # 15)
  => LET v == pre.registers[fetchedX]
     IN  /\ thrown = "none"
         /\ IF nibbleFourth(fetched) = 6
            THEN vm.registers[15] = v % 2 /\ vm.registers[fetchedX] = v \div 2
            ELSE vm.registers[15] = v \div 128
                 /\ vm.registers[fetchedX] = (v * 2) % 256
         /\ registersKeptExcept({fetchedX, 15})

C16_Witness ==
  /\ call = "next"
  /\ fetched = \h8016
  /\ pre.registers[0] = 255
  /\ pre.registers[1] = 0
  /\ vm.registers[0] = 127
  /\ vm.registers[15] = 1

(* C17: 7xkk leaves Vx = (Vx + kk) mod 256 and every other register, VF
   included, as it was; a further 7xjj with kk + jj a multiple of 256 brings
   Vx back to the value it had before the 7xkk. *)
C17_AddImmediate ==
  stepped(7)
  => LET complement == \h7000 + fetchedX * 256 + ((256 - fetchedKK) % 256)
         back == register(complement, vm, 0).vm
     IN  /\ thrown = "none"
         /\ vm.registers[fetchedX] = (pre.registers[fetchedX] + fetchedKK) % 256
         /\ registersKeptExcept({fetchedX})
         /\ back.registers[fetchedX] = pre.registers[fetchedX]
         /\ \A r \in 0..15 : r # fetchedX => back.registers[r] = pre.registers[r]

C17_Witness ==
  /\ call = "next"
  /\ fetched = \h70FF
  /\ pre.registers[0] = 128
  /\ pre.registers[15] = 0
  /\ vm.registers[0] = 127
  /\ vm.registers[15] = 0

(* C18, as stated: Bnnn sets the counter to (nnn + V0) mod 65536 and returns
   without an error, for every nnn and V0. *)
C18_JumpOffsetWraps ==
  stepped(11)
  => /\ thrown = "none"
     /\ vm.counter = (withoutFirst(fetched) + pre.registers[0]) % 65536

(* C18, amended: Bnnn with nnn + V0 below 0x1000 sets the counter to nnn + V0,
   with no further advance, and returns without an error; with nnn + V0 at
   0x1000 or above it throws an error. *)
C18_JumpOffsetInMemory ==
  stepped(11)
  => LET target == withoutFirst(fetched) + pre.registers[0]
     IN  IF target < 4096
         THEN thrown = "none" /\ vm.counter = target
         ELSE thrown = "Error"

C18_Witness ==
  /\ call = "next"
  /\ fetched = \hBF01
  /\ pre.registers[0] = 255
  /\ thrown = "Error"

(* C19: Dxyn with the n bytes memory[I .. I+n-1] in memory draws exactly
   those bytes at (Vx, Vy), leaves VF = 1 when a pixel that was set before
   the draw is unset after it and VF = 0 otherwise, and leaves I, memory and
   every register other than VF unchanged. *)
C19_DrawInstruction ==
  (stepped(13) /\ pre.address + nibbleFourth(fetched) <= MEMORY_SIZE)
  => LET n == nibbleFourth(fetched)
         bytes == [k \in 1..n |-> readMemory(pre.memory, pre.address + k - 1)]
         drawn == drawSprite(pre.display, pre.registers[fetchedX],
                             pre.registers[fetchedY], bytes)
     IN  /\ thrown = "none"
         /\ vm.display = drawn.pixels
         /\ vm.registers[15] = (IF pre.display \ vm.display # {} THEN 1 ELSE 0)
         /\ vm.address = pre.address
         /\ vm.memory = pre.memory
         /\ registersKeptExcept({15})

C19_Witness ==
  /\ call = "next"
  /\ fetched = \hD105
  /\ pre.display # {}
  /\ pre.display \ vm.display # {}
  /\ vm.display \ pre.display # {}
  /\ vm.registers[15] = 1

(* C20: drawSprite(x0, y0, bytes) toggles exactly the pixels
   ((x0 + c) mod 64, (y0 + r) mod 32) for which bit c, counted from the most
   significant bit, of bytes[r] is set, leaves every other pixel as it was,
   and returns true exactly when one of the toggled pixels was set before. *)
C20_SpriteWraps ==
  (stepped(13) /\ thrown = "none")
  => LET x0 == pre.registers[fetchedX]
         y0 == pre.registers[fetchedY]
         bytes == slice(pre.memory, pre.address, pre.address + nibbleFourth(fetched))
         bits == {rc \in (0..(Len(bytes) - 1)) \X (0..7) :
                    (bytes[rc[1] + 1] \div (2 ^ (7 - rc[2]))) % 2 = 1}
         toggled == {<<(x0 + rc[2]) % 64, (y0 + rc[1]) % 32>> : rc \in bits}
         drawn == drawSprite(pre.display, x0, y0, bytes)
     IN  /\ drawn.pixels = (pre.display \ toggled) \cup (toggled \ pre.display)
         /\ drawn.pixelsFlipped = (toggled \cap pre.display # {})
         /\ vm.display = (pre.display \ toggled) \cup (toggled \ pre.display)
         /\ vm.display \subseteq (0..63) \X (0..31)

C20_Witness ==
  /\ call = "next"
  /\ fetched = \hD015
  /\ pre.registers[0] = 255
  /\ pre.registers[1] = 255
  /\ pre.display = {}
  /\ {<<63, 31>>, <<2, 31>>, <<63, 0>>, <<2, 0>>} \subseteq vm.display

(* The sprite a Dxyn fetched by the last next() drew, and where. *)
spriteBytes == slice(pre.memory, pre.address, pre.address + nibbleFourth(fetched))
spriteX == pre.registers[fetchedX]
spriteY == pre.registers[fetchedY]
(* The result of drawing that sprite once more at the same place. *)
drawnAgain == drawSprite(vm.display, spriteX, spriteY, spriteBytes)

(* C21 as stated: a sprite drawn twice at the same coordinates leaves every
   pixel as it was before the first draw, and the second draw reports a
   collision exactly when the sprite has a set bit. *)
C21_DrawTwiceCollides ==
  (stepped(13) /\ thrown = "none")
  => /\ vm.display = drawSprite(pre.display, spriteX, spriteY, spriteBytes).pixels
     /\ drawnAgain.pixels = pre.display
     /\ drawnAgain.pixelsFlipped = (\E k \in DOMAIN spriteBytes : spriteBytes[k] # 0)

(* C21, amended: a sprite drawn twice at the same coordinates leaves every
   pixel as it was before the first draw, and the second draw reports a
   collision exactly when the first draw lit a pixel that was unset. *)
C21_DrawTwiceRestores ==
  (stepped(13) /\ thrown = "none")
  => /\ vm.display = drawSprite(pre.display, spriteX, spriteY, spriteBytes).pixels
     /\ drawnAgain.pixels = pre.display
     /\ drawnAgain.pixelsFlipped = (vm.display \ pre.display # {})

C21_Witness ==
  /\ call = "next"
  /\ fetched = \hD105
  /\ pre.display \ vm.display # {}
  /\ vm.display \ pre.display # {}
  /\ drawnAgain.pixels = pre.display
  /\ drawnAgain.pixelsFlipped

(* The last call was a next() that fetched Fx<low>. *)
steppedF(low) == stepped(15) /\ fetchedKK = low

(* Every memory byte outside the addresses in written is as it was before
   the last call. *)
memoryKeptExcept(written) ==
  \A a \in (DOMAIN vm.memory \cup DOMAIN pre.memory) \ written :
    readMemory(vm.memory, a) = readMemory(pre.memory, a)

(* C22: Fx33 with I .. I+2 in memory writes the hundreds, tens and ones
   digits of Vx, each in 0..9 and together worth Vx, to memory[I],
   memory[I+1], memory[I+2], and leaves I, every register and every other
   memory byte unchanged. *)
C22_StoreDecimal ==
  (steppedF(\h33) /\ pre.address + 2 < MEMORY_SIZE)
  => LET v == pre.registers[fetchedX]
         h == readMemory(vm.memory, pre.address)
         t == readMemory(vm.memory, pre.address + 1)
         o == readMemory(vm.memory, pre.address + 2)
     IN  /\ thrown = "none"
         /\ {h, t, o} \subseteq 0..9
         /\ 100 * h + 10 * t + o = v
         /\ \A w \in 0..255 :
              /\ {bcd(w)[1], bcd(w)[2], bcd(w)[3]} \subseteq 0..9
              /\ 100 * bcd(w)[1] + 10 * bcd(w)[2] + bcd(w)[3] = w
         /\ vm.address = pre.address
         /\ vm.registers = pre.registers
         /\ memoryKeptExcept(pre.address..(pre.address + 2))

C22_Witness ==
  /\ call = "next"
  /\ fetched = \hF133
  /\ pre.address = \h300
  /\ pre.registers[1] = 128
  /\ slice(vm.memory, \h300, \h303) = <<1, 2, 8>>
  /\ slice(pre.memory, \h300, \h303) = <<0, 0, 0>>

(* C23: Fx55 and Fx65 leave I as it was before the instruction, for every
   x in 0..F. *)
C23_AddressKept ==
  (steppedF(\h55) \/ steppedF(\h65)) => vm.address = pre.address

(* C24: Fx55 with I0 .. I0+x in memory, I0 being I before the instruction,
   sets memory[I0 + i] to Vi for every i in 0..x, leaves every memory byte
   outside I0 .. I0+x unchanged, and leaves every register unchanged. *)
C24_CopyRegisters ==
  (steppedF(\h55) /\ pre.address + fetchedX < MEMORY_SIZE)
  => /\ thrown = "none"
     /\ \A i \in 0..fetchedX :
          readMemory(vm.memory, pre.address + i) = pre.registers[i]
     /\ memoryKeptExcept(pre.address..(pre.address + fetchedX))
     /\ vm.registers = pre.registers

C24_Witness ==
  /\ call = "next"
  /\ fetched = \hF155
  /\ pre.address = \h300
  /\ pre.registers[0] = 128
  /\ pre.registers[1] = 255
  /\ slice(pre.memory, \h300, \h303) = <<0, 0, 0>>
  /\ slice(vm.memory, \h300, \h303) = <<128, 255, 0>>

(* C25: Fx65 with I0 .. I0+x in memory, I0 being I before the instruction,
   sets Vi to memory[I0 + i] for every i in 0..x, leaves the registers above
   Vx unchanged, and leaves memory unchanged. *)
C25_LoadRegisters ==
  (steppedF(\h65) /\ pre.address + fetchedX < MEMORY_SIZE)
  => /\ thrown = "none"
     /\ \A i \in 0..fetchedX :
          vm.registers[i] = readMemory(pre.memory, pre.address + i)
     /\ registersKeptExcept(0..fetchedX)
     /\ vm.memory = pre.memory

C25_Witness ==
  /\ call = "next"
  /\ fetched = \hF165
  /\ pre.address = \h204
  /\ pre.registers[0] = 255
  /\ pre.registers[1] = 128
  /\ pre.registers[15] = 255
  /\ vm.registers[0] = \h12
  /\ vm.registers[1] = \h04
  /\ vm.registers[15] = 255

(* The machine after a Fx75 fetched by the last next(), with every register
   then overwritten. *)
overwritten == [vm EXCEPT !.registers = [r \in 0..15 |-> \hAA]]

(* C26: for every x in 0..F, Fx85 executed after Fx75 with the same x gives
   V0..Vx the values they had when Fx75 executed, whatever was written to
   them in between. *)
C26_FlagsRoundTrip ==
  (steppedF(\h75) /\ thrown = "none")
  => LET restored == execute(fetched + \h10, overwritten, 0).vm
     IN  \A i \in 0..fetchedX : restored.registers[i] = pre.registers[i]

(* C29 as stated: Fx1E sets I to (I + Vx) mod 65536 and modifies no
   register, VF included. *)
C29_AddWraps16 ==
  steppedF(\h1E)
  => /\ vm.address = (pre.address + pre.registers[fetchedX]) % 65536
     /\ vm.registers = pre.registers

(* C29, amended: Fx1E sets I to (I + Vx) mod 4096, sets VF to 1 when
   I + Vx >= 4096 and to 0 otherwise, and modifies no other register. *)
C29_AddWraps12 ==
  steppedF(\h1E)
  => LET sum == pre.address + pre.registers[fetchedX]
     IN  /\ thrown = "none"
         /\ vm.address = sum % 4096
         /\ vm.registers[15] = (IF sum >= 4096 THEN 1 ELSE 0)
         /\ registersKeptExcept({15})

C29_Witness ==
  /\ call = "next"
  /\ fetched = \hF11E
  /\ pre.address = \hFFF
  /\ pre.registers[1] = 255
  /\ pre.registers[15] = 0
  /\ vm.address = \hFE
  /\ vm.registers[15] = 1

----------------------------------------------------------------------------
(* Properties of load() and of construction *)

(* The instruction words the machines ms fetch in their next n calls of
   next(). *)
RECURSIVE fetchedWithin(_, _)
fetchedWithin(ms, n) ==
  IF n = 0 THEN {}
  ELSE {fetch(m) : m \in ms}
         \cup fetchedWithin({o.vm : o \in UNION {next(m) : m \in ms}}, n - 1)

isFlagSave(op) == nibbleFirst(op) = 15 /\ BitAnd(op, \h00FF) = \h75

(* C27: the 8 HP48 flag cells change only when Fx75 executes: load() leaves
   them as they were, and so does a next() that fetched any other word and a
   tick() none of whose instructions is Fx75; a ROM loaded over another finds
   the flags the other saved. *)
C27_FlagsOutliveLoad ==
  /\ DOMAIN vm.flags = 0..7
  /\ call = "load" => vm.flags = pre.flags
  /\ (call = "next" /\ ~isFlagSave(fetched)) => vm.flags = pre.flags
  /\ (call = "tick" /\ vm.flags # pre.flags)
       => \E op \in fetchedWithin({pre}, instructionsPerTick) : isFlagSave(op)
  /\ call = "tick" => tickTimers(pre).flags = pre.flags
  /\ call \in {"new", "keydown", "keyup"} => vm.flags = pre.flags

C27_Witness ==
  /\ call = "load"
  /\ pre.flags[0] = \hAB
  /\ fetch(pre) = \h1204
  /\ fetch(vm) = \hF185
  /\ vm.flags = pre.flags

(* C28: load(bytes) sets memory[0x200 + i] to bytes[i] for every index i of
   bytes and leaves everything else as it was: the memory below 0x200 with
   the font data, the memory after the loaded bytes, the registers, I, PC,
   the stack, the timers, the flags and the wait state. *)
C28_LoadOnlyWritesRom ==
  call = "load"
  => \E r \in DOMAIN ReloadRoms :
       LET bytes == opcodeBytes(ReloadRoms[r])
       IN  /\ \A i \in 0..(Len(bytes) - 1) :
                readMemory(vm.memory, ROM_START + i) = bytes[i + 1]
           /\ memoryKeptExcept(ROM_START..(ROM_START + Len(bytes) - 1))
           /\ slice(vm.memory, 0, ROM_START) = slice(pre.memory, 0, ROM_START)
           /\ [vm EXCEPT !.memory = pre.memory] = pre

(* RomShort loaded over a longer ROM that has run. *)
C28_Witness ==
  /\ call = "load"
  /\ fetch([vm EXCEPT !.counter = ROM_START]) = \h1200
  /\ fetch([pre EXCEPT !.counter = ROM_START]) = \h60AB
  /\ fetch([vm EXCEPT !.counter = ROM_START + 2]) = \hF075
  /\ vm.counter = ROM_START + 4
  /\ vm.registers[0] = \hAB
  /\ vm.flags[0] = \hAB

(* The five bytes of the glyph of hexadecimal digit d in the font table. *)
glyph(d) == SubSeq(getFontSprites, 5 * d + 1, 5 * d + 5)

(* C30: right after construction memory[0..79] holds the 16 five-byte glyphs
   in the order 0..F, every other memory byte is 0, the registers and timers
   are 0, the stack is empty and PC is 0x200; Fx29 sets I to 5 * Vx, so that
   for Vx in 0..15, the font area being as constructed, memory[I .. I+4] is
   the glyph of digit Vx. *)
C30_FontsAndGlyphs ==
  /\ call = "new"
       => /\ Len(getFontSprites) = 80
          /\ glyph(0) = <<\hF0, \h90, \h90, \h90, \hF0>>
          /\ glyph(15) = <<\hF0, \h80, \hF0, \h80, \h80>>
          /\ \A d \in 0..15 : slice(vm.memory, 5 * d, 5 * d + 5) = glyph(d)
          /\ \A a \in 80..(MEMORY_SIZE - 1) : readMemory(vm.memory, a) = 0
          /\ \A r \in 0..15 : vm.registers[r] = 0
          /\ vm.delayTimer = 0 /\ vm.soundTimer = 0
          /\ vm.stack = <<>>
          /\ vm.counter = \h200
          /\ \A d \in 0..15 :
               LET pointed == execute(\hF029, [vm EXCEPT !.registers[0] = d], 0).vm
               IN  /\ pointed.address = 5 * d
                   /\ slice(pointed.memory, pointed.address, pointed.address + 5) = glyph(d)
  /\ steppedF(\h29)
       => /\ thrown = "none"
          /\ vm.address = 5 * pre.registers[fetchedX]
          /\ (pre.registers[fetchedX] <= 15 /\ slice(pre.memory, 0, 80) = getFontSprites)
               => slice(vm.memory, vm.address, vm.address + 5)
                    = glyph(pre.registers[fetchedX])

C30_Witness ==
  /\ call = "next"
  /\ fetched = \hF029
  /\ pre.registers[0] = 15
  /\ vm.address = \h4B
  /\ slice(vm.memory, \h4B, \h50) = <<\hF0, \h80, \hF0, \h80, \h80>>

----------------------------------------------------------------------------
(* Properties of the input source *)

(* Key events: <<"down", key>> or <<"up", key>>. *)
KeyEvents == {"down", "up"} \X Keys

(* The active keys after the listeners have handled the events es in order. *)
RECURSIVE afterEvents(_, _)
afterEvents(activeKeys, es) ==
  IF es = <<>> THEN activeKeys
  ELSE afterEvents(IF Head(es)[1] = "down" THEN keydown(activeKeys, Head(es)[2])
                   ELSE keyup(activeKeys, Head(es)[2]),
                   Tail(es))

(* The kind of the last event of es for a physical key mapped to code k, or
   "none". *)
RECURSIVE lastEventOf(_, _)
lastEventOf(k, es) ==
  IF es = <<>> THEN "none"
  ELSE LET e == es[Len(es)]
       IN  IF e[2] \in DOMAIN keyMap /\ keyMap[e[2]] = k THEN e[1]
           ELSE lastEventOf(k, SubSeq(es, 1, Len(es) - 1))

(* C31: isPressed(k) holds exactly when the last event for the key mapped to
   code k was a keydown: a keydown of a mapped key makes its code pressed, a
   keyup makes it not pressed, neither touches another code, an event for an
   unmapped key and every call of the machine change nothing, and keyMap
   maps 16 physical keys one-to-one onto the codes 0..15. *)
C31_KeyState ==
  /\ Cardinality(DOMAIN keyMap) = 16
  /\ {keyMap[k] : k \in DOMAIN keyMap} = 0..15
  /\ call = "new"
       => \A es \in UNION {[1..n -> KeyEvents] : n \in 0..3} :
            \A k \in 0..15 :
              isPressed(afterEvents(vm.input, es), k) = (lastEventOf(k, es) = "down")
  /\ call = "keydown"
       => \E key \in Keys :
            IF key \in DOMAIN keyMap
            THEN /\ isPressed(vm.input, keyMap[key])
                 /\ vm.input \ {keyMap[key]} = pre.input \ {keyMap[key]}
            ELSE vm.input = pre.input
  /\ call = "keyup"
       => \E key \in Keys :
            IF key \in DOMAIN keyMap
            THEN /\ ~isPressed(vm.input, keyMap[key])
                 /\ vm.input \ {keyMap[key]} = pre.input \ {keyMap[key]}
            ELSE vm.input = pre.input
  /\ call \in {"load", "next", "tick"} => vm.input = pre.input

C31_Witness ==
  /\ call = "keyup"
  /\ pre.input = {0, 1}
  /\ vm.input = {0}

(* C32: once a key press has arrived while the machine waits on Fx0A, the
   next() that follows ends the wait with the code of a key that was pressed
   in the target register, also when the key has been released before that
   next(). *)
C32_PressEndsWait ==
  [][ LET released == IF call = "keyup" /\ blocked(pre) THEN pre.input ELSE {}
          arrived == vm.input \cup released
      IN  (call' = "next" /\ blocked(vm) /\ arrived # {})
          => /\ ~vm'.waitingForInput
             /\ vm'.registers[nibbleSecond(fetch(vm))] \in arrived ]_vars

----------------------------------------------------------------------------
(* Properties of reset() *)

(* A machine constructed on the display and input objects of m. *)
constructedOn(m) ==
  [ registers |-> [r \in 0..15 |-> 0],
    flags |-> [f \in 0..7 |-> 0],
    memory |-> [a \in {x \in 0..79 : getFontSprites[x + 1] # 0} |-> getFontSprites[a + 1]],
    counter |-> \h200,
    address |-> 0,
    stack |-> <<>>,
    delayTimer |-> 0,
    soundTimer |-> 0,
    display |-> m.display,
    input |-> m.input,
    waitingForInput |-> FALSE ]

(* C33: reset() gives the registers, I, memory (zero but for the fonts), the
   stack, both timers, PC and the wait state their values at construction
   and keeps the display and the input, so that load(rom) after reset()
   yields the machine that load(rom) yields on a machine just constructed on
   the same display and input. *)
C33_ResetThenLoad ==
  call = "reset"
  => /\ vm = constructedOn(pre)
     /\ \A r \in DOMAIN ReloadRoms :
          load(vm, opcodeBytes(ReloadRoms[r]))
            = load(constructedOn(pre), opcodeBytes(ReloadRoms[r]))
     /\ \A r \in DOMAIN ReloadRoms :
          next(load(vm, opcodeBytes(ReloadRoms[r])))
            = next(load(constructedOn(pre), opcodeBytes(ReloadRoms[r])))

C33_Witness ==
  /\ call = "reset"
  /\ pre.display # {}
  /\ pre.registers[0] # 0
  /\ pre.address # 0
  /\ pre.counter > ROM_START
  /\ fetch([pre EXCEPT !.counter = ROM_START]) = \h60FF
  /\ vm.display = pre.display
  /\ vm.counter = ROM_START
  /\ fetch(vm) = 0

----------------------------------------------------------------------------
(* Properties of addressing *)

(* The last next() fetched an instruction whose operand addresses, derived
   from I, reach past the end of memory. *)
addressesPastMemory ==
  \/ stepped(13) /\ pre.address + nibbleFourth(fetched) > MEMORY_SIZE
  \/ steppedF(\h33) /\ pre.address + 2 >= MEMORY_SIZE
  \/ (steppedF(\h55) \/ steppedF(\h65)) /\ pre.address + fetchedX >= MEMORY_SIZE

(* C34: a next() whose fetch at PC, PC+1 or whose sprite read, digit store or
   register copy at an address derived from I falls outside 0x000..0xFFF
   raises an error. *)
C34_OutOfRangeRaises ==
  (call = "next" /\ (addressesPastMemory \/ pre.counter + 1 >= MEMORY_SIZE))
  => thrown # "none"

----------------------------------------------------------------------------
(* Invariants of the machine state *)

(* C35 as stated: PC is even in every reachable state, whatever the ROM. *)
C35_CounterEven == vm.counter % 2 = 0

(* C35, amended: PC is 0x200 after construction and load(), and a next()
   changes the parity of PC only by a jump, call or return to an address of
   the other parity: 1nnn or 2nnn to nnn, Bnnn to nnn + V0, 00EE to the call
   site on the stack; every other instruction keeps the parity of PC. *)
C35_CounterParity ==
  /\ call = "load" => vm.counter = \h200
  /\ (call = "next" /\ vm.counter % 2 # pre.counter % 2)
       => \/ (isJump(fetched) \/ isCall(fetched))
               /\ withoutFirst(fetched) % 2 # pre.counter % 2
          \/ isJumpOffset(fetched)
               /\ (withoutFirst(fetched) + pre.registers[0]) % 2 # pre.counter % 2
          \/ isReturn(fetched) /\ pre.stack # <<>>
               /\ pre.stack[Len(pre.stack)] % 2 # pre.counter % 2

C35_Witness ==
  /\ call = "next"
  /\ fetched = \hB202
  /\ pre.registers[0] = 1
  /\ pre.counter = \h200
  /\ vm.counter = \h203
  /\ thrown = "none"

(* C36: I is a 12-bit address, 0 <= I <= 0xFFF, in every reachable state. *)
C36_AddressTwelveBits == vm.address \in 0..(MEMORY_SIZE - 1)

(* C37: after 8xy4, 8xy5, 8xy6, 8xy7, 8xyE and Dxyn, for every x and y, x = F
   included, VF is 0 or 1. *)
C37_FlagIsBit ==
  (thrown = "none"
     /\ (stepped(13) \/ (stepped(8) /\ nibbleFourth(fetched) \in {4, 5, 6, 7, 14})))
  => vm.registers[15] \in {0, 1}

(* C38: in every reachable state the machine is waiting for input only if
   the word at PC is Fx0A, also after load() of another ROM during a wait. *)
C38_WaitingAtWaitKey == vm.waitingForInput => isWaitKey(fetch(vm))

====
